---- MODULE Spec2Model ----
(***************************************************************************)
(* Model of src/relay_server.py: the accept loop of RelayServer.start and  *)
(* one worker thread per accepted connection running                       *)
(* RelayServer.handle_client.  The shared state is self.hosts,             *)
(* self.clients and self.stats; RelayServer takes no lock, so every access *)
(* of a worker to the shared state is a step of its own and threads        *)
(* interleave between these steps.  Steps that touch only locals are       *)
(* folded into the neighbouring step.  self.connections is written and     *)
(* deleted only under the worker's own key and never read, so it is left   *)
(* out.                                                                    *)
(***************************************************************************)
EXTENDS Integers, Sequences, FiniteSets, TLC

\* ---------------------------------------------------------------- bounds
MaxConns == 3      \* connections the accept loop accepts
MaxWrites == 1     \* bytes each remote peer writes after its handshake
MaxCloses == 2     \* remote peers that close their end

\* ------------------------------------------------------ program constants
RecvBuf == 8192    \* client.recv(8192)
MaxMsgSize == 10485760   \* 10 * 1024 * 1024, the sanity check of receive_json

\* the connections: those the accept loop accepts from the start, and one
\* more for the behaviours that start with a pairing in place (InitPaired)
Conns == 1..(MaxConns + 1)
Ids == {"X", "Y"}        \* the ids a host registers
TargetIds == {"X", "Y"}  \* the ids a client asks for
None == 0

VARIABLES
    hosts,        \* self.hosts: id -> connection, None when the key is absent
    clients,      \* self.clients: the dict's entry array, in insertion order
    stats,        \* self.stats
    nconn,        \* number of connections accepted so far
    accPc,        \* position of the accept loop
    accTmp,       \* accept loop: value read by  active_connections += 1
    pc,           \* position of each worker
    hid,          \* host_id / target_id of the worker
    host_socket,  \* client worker: host_socket captured at line 162
    client_socket,\* host worker: client_socket found by the scan
    it,           \* host worker: the dict iterator of the scan
    data,         \* the chunk returned by recv
    tmp,          \* value read by a  stats[...] op= ...  in progress
    tdIds,        \* teardown: ids of the snapshot whose socket is this one
    exit,         \* the path on which the worker left the try block
    hs,           \* what receive_json did with the handshake frame
    notified,     \* client worker: what send_json(host_socket, ...) returned
    wrote,        \* number of bytes of the remote peer read so far
    out,          \* everything the relay wrote to the socket, in order
    peerClosed,   \* the remote peer has closed its end
    sockClosed,   \* the relay has closed the socket (client.close())
    superseded    \* history: hosts[id] of this host was overwritten by another

vars == <<hosts, clients, stats, nconn, accPc, accTmp, pc, hid, host_socket,
          client_socket, it, data, tmp, tdIds, exit, hs, notified,
          wrote, out, peerClosed, sockClosed, superseded>>

shared == <<hosts, clients, stats>>
acceptor == <<nconn, accPc, accTmp>>
sockets == <<wrote, out, peerClosed, sockClosed>>

Min(a, b) == IF a < b THEN a ELSE b

\* ------------------------------------------------------------- messages
\* What receive_json returns, reduced to the fields handle_client reads.
\* A missing id / target_id and an empty one are both "" (falsy).
NoMsg == [action |-> "none", arg |-> ""]
HandshakeMsgs ==
    {NoMsg, [action |-> "other", arg |-> ""]}
    \cup {[action |-> "register", arg |-> i] : i \in Ids \cup {""}}
    \cup {[action |-> "connect", arg |-> i] : i \in TargetIds \cup {""}}
\* The handshakes tried: the first connection accepted registers X, the
\* second asks for X, the third sends any handshake, and one accepted after
\* these asks for Y.  The workers still run in any order.
HandshakeMsgsOf(c) ==
    IF c = 1 THEN {[action |-> "register", arg |-> "X"]}
    ELSE IF c = 2 THEN {[action |-> "connect", arg |-> "X"]}
    ELSE IF c <= MaxConns THEN HandshakeMsgs
    ELSE {[action |-> "connect", arg |-> "Y"]}

\* The handshake frame as the peer puts it on the wire: whether the 4 bytes
\* of the length field arrive before the peer closes or the 30 s timeout
\* ends, the length they declare, how many bytes of payload arrive, and what
\* the payload decodes to (Garbage: not UTF-8 JSON).  A payload that decodes
\* to something other than a dict with a known action is the "other" message.
Garbage == [action |-> "garbage", arg |-> ""]
Wire(h, n, g, p) == [hdr |-> h, size |-> n, got |-> g, payload |-> p]
WiresOf(c) ==
    {Wire(TRUE, 32, 32, m) : m \in HandshakeMsgsOf(c) \ {NoMsg}}
    \cup (IF NoMsg \in HandshakeMsgsOf(c)
          THEN {Wire(FALSE, 0, 0, Garbage),
                Wire(TRUE, 0, 0, Garbage),
                Wire(TRUE, 32, 16, [action |-> "register", arg |-> "Y"]),
                Wire(TRUE, 32, 32, Garbage),
                Wire(TRUE, MaxMsgSize, MaxMsgSize,
                     [action |-> "register", arg |-> "Y"]),
                Wire(TRUE, MaxMsgSize + 1, MaxMsgSize + 1,
                     [action |-> "register", arg |-> "Y"])}
          ELSE {})

\* receive_all(sock, n) with g bytes arriving: the bytes it reads, and
\* whether it returns them (it returns None when the stream ends or the
\* timeout expires first)
ReceiveAll(n, g) == [read |-> Min(n, g), ok |-> g >= n]

\* receive_json (lines 262-286): the message returned (NoMsg for None), the
\* declared size, the bytes read after the length field, and the way out
NoFrame == [size |-> 0, read |-> 0, err |-> "none"]
\* ReceiveJson with the size checked only after the payload has been read
ReceiveJsonChecksLate(w) ==
    IF ~w.hdr
    THEN [msg |-> NoMsg, size |-> 0, read |-> 0, err |-> "short"]
    ELSE LET body == ReceiveAll(w.size, w.got) IN
         IF ~body.ok
         THEN [msg |-> NoMsg, size |-> w.size, read |-> body.read,
               err |-> "short"]
         ELSE IF w.size > MaxMsgSize
         THEN [msg |-> NoMsg, size |-> w.size, read |-> body.read,
               err |-> "too_large"]
         ELSE IF body.read = 0
         THEN [msg |-> NoMsg, size |-> w.size, read |-> 0, err |-> "empty"]
         ELSE IF w.payload = Garbage
         THEN [msg |-> NoMsg, size |-> w.size, read |-> body.read,
               err |-> "decode"]
         ELSE [msg |-> w.payload, size |-> w.size, read |-> body.read,
               err |-> "ok"]

ReceiveJson(w) ==
    IF ~w.hdr
    THEN [msg |-> NoMsg, size |-> 0, read |-> 0, err |-> "short"]
    ELSE IF w.size > MaxMsgSize
    THEN [msg |-> NoMsg, size |-> w.size, read |-> 0, err |-> "too_large"]
    ELSE LET body == ReceiveAll(w.size, w.got) IN
         IF ~body.ok
         THEN [msg |-> NoMsg, size |-> w.size, read |-> body.read,
               err |-> "short"]
         ELSE IF body.read = 0
         THEN [msg |-> NoMsg, size |-> w.size, read |-> 0, err |-> "empty"]
         ELSE IF w.payload = Garbage
         THEN [msg |-> NoMsg, size |-> w.size, read |-> body.read,
               err |-> "decode"]
         ELSE [msg |-> w.payload, size |-> w.size, read |-> body.read,
               err |-> "ok"]

\* Items of a socket's output stream: a framed control message or one byte
\* of a forwarded chunk (src, n: the n-th byte written by the peer of src).
Ctl(action, error, id) ==
    [t |-> "ctl", action |-> action, error |-> error, id |-> id,
     src |-> 0, n |-> 0]
Byte(c, k) ==
    [t |-> "byte", action |-> "", error |-> "", id |-> "", src |-> c, n |-> k]

ClientConnected == Ctl("client_connected", "", "")
Connected == Ctl("connected", "", "")
ErrNoTarget == Ctl("error", "No target ID provided", "")
ErrHostFailed == Ctl("error", "Host connection failed", "")
ErrNotFound(id) == Ctl("error", "not found", id)

\* ------------------------------------------------------ the clients dict
\* CPython keeps a dict as an array of entries in insertion order; del
\* leaves a dummy in the array and an insert appends.  (The array is only
\* compacted on a resize, which needs more than 5 inserts.)
Dummy == [sock |-> None, target |-> ""]
Live(d) == {i \in 1..Len(d) : d[i].sock # None}
Used(d) == Cardinality(Live(d))
HasKey(d, c) == \E i \in Live(d) : d[i].sock = c
DictSet(d, c, t) == Append(d, [sock |-> c, target |-> t])
DictDel(d, c) == [i \in 1..Len(d) |-> IF d[i].sock = c THEN Dummy ELSE d[i]]

\* iter(d.items()): remembers ma_used, position 0, and the items left
NoIter == [used |-> 0, pos |-> 0, len |-> 0]
DictIter(d) == [used |-> Used(d), pos |-> 0, len |-> Used(d)]
\* first live entry at or after position p (0-based), or Len(d)+1
SkipDummies(d, p) ==
    IF \E i \in Live(d) : i > p
    THEN CHOOSE i \in Live(d) : i > p /\ \A j \in Live(d) : j > p => i <= j
    ELSE Len(d) + 1
\* dictiter_iternextitem
IterNext(d, i) ==
    LET k == SkipDummies(d, i.pos) IN
    IF i.used # Used(d) THEN [res |-> "error", it |-> NoIter, entry |-> Dummy]
    ELSE IF k > Len(d) THEN [res |-> "stop", it |-> NoIter, entry |-> Dummy]
    ELSE IF i.len = 0 THEN [res |-> "error", it |-> NoIter, entry |-> Dummy]
    ELSE [res |-> "item",
          it |-> [used |-> i.used, pos |-> k, len |-> i.len - 1],
          entry |-> d[k]]

\* --------------------------------------------------------------- sockets
\* sock.sendall: fails on a socket the relay has closed, may fail or be
\* accepted by the kernel when the remote peer is gone, succeeds otherwise.
SendResults(s) ==
    IF sockClosed[s] THEN {FALSE}
    ELSE IF peerClosed[s] THEN {TRUE, FALSE}
    ELSE {TRUE}

\* send_json(sock, m): sendall of the framed message; returns whether it
\* succeeded and never raises (lines 253-260).
SendJson(s, m, ok) == IF ok THEN [out EXCEPT ![s] = Append(@, m)] ELSE out

\* the k bytes the peer of c writes after its first n
Chunk(c, n, k) == [j \in 1..k |-> Byte(c, n + j)]

\* ------------------------------------------------------------------ Init
Init ==
    /\ hosts = [i \in Ids |-> None]
    /\ clients = <<>>
    /\ stats = [total_connections |-> 0, active_connections |-> 0,
                data_transferred |-> 0]
    /\ nconn = 0
    /\ accPc = "accept"
    /\ accTmp = 0
    /\ pc = [c \in Conns |-> "idle"]
    /\ hid = [c \in Conns |-> ""]
    /\ host_socket = [c \in Conns |-> None]
    /\ client_socket = [c \in Conns |-> None]
    /\ it = [c \in Conns |-> NoIter]
    /\ data = [c \in Conns |-> <<>>]
    /\ tmp = [c \in Conns |-> 0]
    /\ tdIds = [c \in Conns |-> {}]
    /\ exit = [c \in Conns |-> "running"]
    /\ hs = [c \in Conns |-> NoFrame]
    /\ notified = [c \in Conns |-> "unsent"]
    /\ wrote = [c \in Conns |-> 0]
    /\ out = [c \in Conns |-> <<>>]
    /\ peerClosed = [c \in Conns |-> FALSE]
    /\ sockClosed = [c \in Conns |-> FALSE]
    /\ superseded = [c \in Conns |-> FALSE]

locals == <<hid, host_socket, client_socket, it, data, tmp, tdIds, exit,
            hs, notified>>

\* The worker leaves the try block on path e: control reaches `finally`
\* (line 221).  The loop over the hosts snapshot (226-230) finds nothing and
\* changes nothing for a connection that never ran line 106, and so does the
\* test of line 233 for one that never ran line 163: the teardown of such a
\* connection starts at its first step that can touch shared state.
Leave(c, e) ==
    /\ pc' = [pc EXCEPT ![c] =
                IF pc[c] \in {"scan", "scan_next", "h_recv", "h_send"}
                THEN "td_hosts"
                ELSE IF HasKey(clients, c) THEN "td_clients" ELSE "td_dec"]
    /\ exit' = [exit EXCEPT ![c] = e]

\* ----------------------------------------------------------- accept loop
\* server.accept(); total_connections += 1; the read of active_connections
Accept(limit) ==
    /\ accPc = "accept"
    /\ nconn < limit
    /\ nconn' = nconn + 1
    /\ stats' = [stats EXCEPT !.total_connections = @ + 1]
    /\ accTmp' = stats.active_connections
    /\ accPc' = "inc"
    /\ pc' = [pc EXCEPT ![nconn + 1] = "accepted"]
    /\ UNCHANGED <<hosts, clients, locals, sockets, superseded>>

\* the write of  active_connections += 1 ; threading.Thread(...).start()
AcceptSpawn ==
    /\ accPc = "inc"
    /\ stats' = [stats EXCEPT !.active_connections = accTmp + 1]
    /\ accTmp' = 0
    /\ accPc' = "accept"
    /\ pc' = [pc EXCEPT ![nconn] = "handshake"]
    /\ UNCHANGED <<hosts, clients, nconn, locals, sockets, superseded>>

\* ---------------------------------------------------------- remote peers
\* The workers that are about to write to the socket of c.
Writers(c) ==
    {w \in Conns : \/ pc[w] \in {"c_notarget", "c_miss", "c_reply"} /\ w = c
                   \/ pc[w] \in {"c_notify", "c_send"} /\ host_socket[w] = c
                   \/ pc[w] = "h_send" /\ client_socket[w] = c}

\* The peer closes its end.  The relay sees the close only in a recv on the
\* socket or in a write to it, so the close is taken when a worker is at
\* one of these.  A peer that closes before its handshake is read is the
\* NoMsg case of Handshake.
PeerClose(c) ==
    /\ pc[c] \notin {"idle", "accepted", "handshake", "closed", "crashed"}
    /\ pc[c] \in {"h_recv", "c_recv"} \/ Writers(c) # {}
    /\ ~peerClosed[c]
    /\ Cardinality({x \in Conns : peerClosed[x]}) < MaxCloses
    /\ peerClosed' = [peerClosed EXCEPT ![c] = TRUE]
    /\ UNCHANGED <<shared, acceptor, pc, locals, wrote, out, sockClosed,
                   superseded>>

\* ------------------------------------------------------------- handshake
\* Reject that answers the bad handshake with an error message
RejectWithReply(c) ==
    /\ Leave(c, "rejected")
    /\ \E ok \in SendResults(c) :
          out' = SendJson(c, Ctl("error", "Invalid handshake", ""), ok)

\* lines 92-94, 101-104, and an action that is neither register nor
\* connect: the worker returns and nothing is written to the socket
Reject(c) ==
    /\ Leave(c, "rejected")
    /\ UNCHANGED out

\* lines 85-104, 149-157: receive_json and the dispatch on msg
Handshake(c) ==
    /\ pc[c] = "handshake"
    /\ \E w \in WiresOf(c) :
        LET r == ReceiveJson(w)
            m == r.msg
        IN
        /\ hs' = [hs EXCEPT ![c] = [size |-> r.size, read |-> r.read,
                                    err |-> r.err]]
        /\ \/ /\ m.action = "none"
              /\ Reject(c)
              /\ UNCHANGED hid
           \/ /\ m.action = "other"
              /\ Reject(c)
              /\ UNCHANGED hid
           \/ /\ m.action = "register" /\ m.arg = ""
              /\ Reject(c)
              /\ UNCHANGED hid
           \/ /\ m.action = "register" /\ m.arg # ""
              /\ hid' = [hid EXCEPT ![c] = m.arg]
              /\ pc' = [pc EXCEPT ![c] = "register"]
              /\ UNCHANGED <<exit, out>>
           \/ /\ m.action = "connect" /\ m.arg = ""
              /\ pc' = [pc EXCEPT ![c] = "c_notarget"]
              /\ UNCHANGED <<hid, exit, out>>
           \/ /\ m.action = "connect" /\ m.arg # ""
              /\ hid' = [hid EXCEPT ![c] = m.arg]
              /\ pc' = [pc EXCEPT ![c] = "c_lookup"]
              /\ UNCHANGED <<exit, out>>
    /\ UNCHANGED <<shared, acceptor, host_socket, client_socket, it, data,
                   tmp, tdIds, notified, wrote, peerClosed, sockClosed,
                   superseded>>

\* ----------------------------------------------------------- host worker
\* line 106: self.hosts[host_id] = client
Register(c) ==
    /\ pc[c] = "register"
    /\ hosts' = [hosts EXCEPT ![hid[c]] = c]
    /\ superseded' = [h \in Conns |->
                        superseded[h] \/ (hosts[hid[c]] = h /\ h # c)]
    /\ pc' = [pc EXCEPT ![c] = "scan"]
    /\ UNCHANGED <<clients, stats, acceptor, locals, sockets>>

\* lines 121-127, 142-144: one FOR_ITER of the reverse lookup.  At "scan" the
\* iterator is created first; at "scan_next" the previous entry did not match.
\* A RuntimeError of the iterator is caught at line 146.
ScanStep(c) ==
    /\ pc[c] \in {"scan", "scan_next"}
    /\ LET i == IF pc[c] = "scan" THEN DictIter(clients) ELSE it[c]
           r == IterNext(clients, i)
       IN  \/ /\ r.res = "item" /\ r.entry.target = hid[c]
              /\ client_socket' = [client_socket EXCEPT ![c] = r.entry.sock]
              /\ it' = [it EXCEPT ![c] = NoIter]
              /\ pc' = [pc EXCEPT ![c] = "h_recv"]
              /\ UNCHANGED exit
           \/ /\ r.res = "item" /\ r.entry.target # hid[c]
              /\ client_socket' = [client_socket EXCEPT ![c] = None]
              /\ it' = [it EXCEPT ![c] = r.it]
              /\ pc' = [pc EXCEPT ![c] = "scan_next"]
              /\ UNCHANGED exit
           \/ /\ r.res = "stop"          \* time.sleep(0.1), then poll again
              /\ client_socket' = [client_socket EXCEPT ![c] = None]
              /\ it' = [it EXCEPT ![c] = NoIter]
              /\ pc' = [pc EXCEPT ![c] = "scan"]
              /\ UNCHANGED exit
           \/ /\ r.res = "error"
              /\ client_socket' = [client_socket EXCEPT ![c] = None]
              /\ it' = [it EXCEPT ![c] = NoIter]
              /\ Leave(c, "scan_abort")
    /\ UNCHANGED <<shared, acceptor, hs, hid, host_socket, data, tmp, tdIds,
                   notified, sockets, superseded>>

\* lines 129-134: data = client.recv(8192) blocks until the peer has written
\* bytes, of which it returns at most 8192, or has closed; the read of
\* stats['data_transferred'] follows it.  The bytes a peer writes stay in the
\* socket until this recv, so the peer's write is taken with the recv that
\* returns its bytes; a peer that closes has written all it writes.
HostRecv(c) ==
    /\ pc[c] = "h_recv"
    /\ \/ /\ ~peerClosed[c]
          /\ \E k \in 1..Min(MaxWrites - wrote[c], RecvBuf) :
               /\ data' = [data EXCEPT ![c] = Chunk(c, wrote[c], k)]
               /\ wrote' = [wrote EXCEPT ![c] = @ + k]
          /\ tmp' = [tmp EXCEPT ![c] = stats.data_transferred]
          /\ pc' = [pc EXCEPT ![c] = "h_count"]
          /\ UNCHANGED exit
       \/ /\ peerClosed[c]
          /\ Leave(c, "eof")
          /\ UNCHANGED <<data, tmp, wrote>>
    /\ UNCHANGED <<shared, acceptor, hs, hid, host_socket, client_socket, it,
                   tdIds, notified, out, peerClosed, sockClosed,
                   superseded>>

\* line 134: the write of  self.stats['data_transferred'] += len(data)
HostCount(c) ==
    /\ pc[c] = "h_count"
    /\ stats' = [stats EXCEPT !.data_transferred = tmp[c] + Len(data[c])]
    /\ tmp' = [tmp EXCEPT ![c] = 0]
    /\ pc' = [pc EXCEPT ![c] = "h_send"]
    /\ UNCHANGED <<hosts, clients, acceptor, hs, hid, host_socket, client_socket,
                   it, data, tdIds, exit, notified, sockets, superseded>>

\* lines 137-141: client_socket.sendall(data)
HostSend(c) ==
    /\ pc[c] = "h_send"
    /\ \E ok \in SendResults(client_socket[c]) :
        IF ok
        THEN /\ out' = [out EXCEPT ![client_socket[c]] = @ \o data[c]]
             /\ pc' = [pc EXCEPT ![c] = "scan"]
             /\ UNCHANGED exit
        ELSE /\ Leave(c, "wfail")
             /\ UNCHANGED out
    /\ data' = [data EXCEPT ![c] = <<>>]
    /\ client_socket' = [client_socket EXCEPT ![c] = None]
    /\ UNCHANGED <<shared, acceptor, hs, hid, host_socket, it, tmp, tdIds,
                   notified, wrote, peerClosed, sockClosed, superseded>>

\* --------------------------------------------------------- client worker
\* ClientNoTarget that drops the connection without the error reply
ClientNoTargetSilent(c) ==
    /\ pc[c] = "c_notarget"
    /\ UNCHANGED out
    /\ Leave(c, "notarget")
    /\ UNCHANGED <<shared, acceptor, hs, hid, host_socket, client_socket, it,
                   data, tmp, tdIds, notified, wrote, peerClosed,
                   sockClosed, superseded>>

\* lines 153-157: no target id
ClientNoTarget(c) ==
    /\ pc[c] = "c_notarget"
    /\ \E ok \in SendResults(c) : out' = SendJson(c, ErrNoTarget, ok)
    /\ Leave(c, "notarget")
    /\ UNCHANGED <<shared, acceptor, hs, hid, host_socket, client_socket, it,
                   data, tmp, tdIds, notified, wrote, peerClosed,
                   sockClosed, superseded>>

\* line 161: if target_id in self.hosts
ClientLookup(c) ==
    /\ pc[c] = "c_lookup"
    /\ pc' = [pc EXCEPT ![c] = IF hosts[hid[c]] # None THEN "c_get"
                               ELSE "c_miss"]
    /\ UNCHANGED <<shared, acceptor, locals, sockets, superseded>>

\* line 162: host_socket = self.hosts[target_id]; a KeyError is caught at
\* line 219
ClientGet(c) ==
    /\ pc[c] = "c_get"
    /\ IF hosts[hid[c]] # None
       THEN /\ host_socket' = [host_socket EXCEPT ![c] = hosts[hid[c]]]
            /\ pc' = [pc EXCEPT ![c] = "c_insert"]
            /\ UNCHANGED exit
       ELSE /\ Leave(c, "keyerror")
            /\ UNCHANGED host_socket
    /\ UNCHANGED <<shared, acceptor, hs, hid, client_socket, it, data, tmp,
                   tdIds, notified, sockets, superseded>>

\* line 163: self.clients[client] = target_id
ClientInsert(c) ==
    /\ pc[c] = "c_insert"
    /\ clients' = DictSet(clients, c, hid[c])
    /\ pc' = [pc EXCEPT ![c] = "c_notify"]
    /\ UNCHANGED <<hosts, stats, acceptor, locals, sockets, superseded>>

\* lines 172-180: send_json(host_socket, client_connected).  send_json
\* swallows the failure, so the except branch is never taken.
ClientNotify(c) ==
    /\ pc[c] = "c_notify"
    /\ \E ok \in SendResults(host_socket[c]) :
        /\ out' = SendJson(host_socket[c], ClientConnected, ok)
        /\ notified' = [notified EXCEPT ![c] = IF ok THEN "ok" ELSE "failed"]
    /\ pc' = [pc EXCEPT ![c] = "c_reply"]
    /\ UNCHANGED <<shared, acceptor, hs, hid, host_socket, client_socket, it,
                   data, tmp, tdIds, exit, wrote, peerClosed,
                   sockClosed, superseded>>

\* lines 183-184: send_json(client, connected)
ClientReply(c) ==
    /\ pc[c] = "c_reply"
    /\ \E ok \in SendResults(c) : out' = SendJson(c, Connected, ok)
    /\ pc' = [pc EXCEPT ![c] = "c_recv"]
    /\ UNCHANGED <<shared, acceptor, locals, wrote, peerClosed,
                   sockClosed, superseded>>

\* lines 192-197: data = client.recv(8192) and the read of the counter
ClientRecv(c) ==
    /\ pc[c] = "c_recv"
    /\ \/ /\ ~peerClosed[c]
          /\ \E k \in 1..Min(MaxWrites - wrote[c], RecvBuf) :
               /\ data' = [data EXCEPT ![c] = Chunk(c, wrote[c], k)]
               /\ wrote' = [wrote EXCEPT ![c] = @ + k]
          /\ tmp' = [tmp EXCEPT ![c] = stats.data_transferred]
          /\ pc' = [pc EXCEPT ![c] = "c_count"]
          /\ UNCHANGED exit
       \/ /\ peerClosed[c]
          /\ Leave(c, "eof")
          /\ UNCHANGED <<data, tmp, wrote>>
    /\ UNCHANGED <<shared, acceptor, hs, hid, host_socket, client_socket, it,
                   tdIds, notified, out, peerClosed, sockClosed,
                   superseded>>

\* line 197: the write of  self.stats['data_transferred'] += len(data)
ClientCount(c) ==
    /\ pc[c] = "c_count"
    /\ stats' = [stats EXCEPT !.data_transferred = tmp[c] + Len(data[c])]
    /\ tmp' = [tmp EXCEPT ![c] = 0]
    /\ pc' = [pc EXCEPT ![c] = "c_send"]
    /\ UNCHANGED <<hosts, clients, acceptor, hs, hid, host_socket, client_socket,
                   it, data, tdIds, exit, notified, sockets, superseded>>

\* lines 199-203: host_socket.sendall(data)
ClientSend(c) ==
    /\ pc[c] = "c_send"
    /\ \E ok \in SendResults(host_socket[c]) :
        IF ok
        THEN /\ out' = [out EXCEPT ![host_socket[c]] = @ \o data[c]]
             /\ pc' = [pc EXCEPT ![c] = "c_recv"]
             /\ UNCHANGED exit
        ELSE /\ Leave(c, "wfail")
             /\ UNCHANGED out
    /\ data' = [data EXCEPT ![c] = <<>>]
    /\ UNCHANGED <<shared, acceptor, hs, hid, host_socket, client_socket, it,
                   tmp, tdIds, notified, wrote, peerClosed, sockClosed,
                   superseded>>

\* ClientMiss with the session entry created before the host is looked up
ClientMissKeepsSession(c) ==
    /\ pc[c] = "c_miss"
    /\ \E ok \in SendResults(c) : out' = SendJson(c, ErrNotFound(hid[c]), ok)
    /\ clients' = DictSet(clients, c, hid[c])
    /\ pc' = [pc EXCEPT ![c] = "td_clients"]
    /\ exit' = [exit EXCEPT ![c] = "miss"]
    /\ UNCHANGED <<hosts, stats, acceptor, hs, hid, host_socket, client_socket, it,
                   data, tmp, tdIds, notified, wrote, peerClosed,
                   sockClosed, superseded>>

\* lines 208-215: host not found
ClientMiss(c) ==
    /\ pc[c] = "c_miss"
    /\ \E ok \in SendResults(c) : out' = SendJson(c, ErrNotFound(hid[c]), ok)
    /\ Leave(c, "miss")
    /\ UNCHANGED <<shared, acceptor, hs, hid, host_socket, client_socket, it,
                   data, tmp, tdIds, notified, wrote, peerClosed,
                   sockClosed, superseded>>

\* -------------------------------------------------------------- teardown
\* line 226: list(self.hosts.items()), of which the loop keeps the ids whose
\* socket is this connection
TdHosts(c) ==
    /\ pc[c] = "td_hosts"
    /\ LET mine == {i \in Ids : hosts[i] = c} IN
        /\ tdIds' = [tdIds EXCEPT ![c] = mine]
        /\ pc' = [pc EXCEPT ![c] = IF mine = {} THEN "td_dec" ELSE "td_del"]
    /\ UNCHANGED <<shared, acceptor, hs, hid, host_socket, client_socket, it,
                   data, tmp, exit, notified, sockets, superseded>>

\* TdDel that also ends the sessions that target the id it removes
TdDelDropsSessions(c) ==
    /\ pc[c] = "td_del"
    /\ \E i \in tdIds[c] :
        IF hosts[i] = None
        THEN /\ pc' = [pc EXCEPT ![c] = "crashed"]
             /\ tdIds' = [tdIds EXCEPT ![c] = {}]
             /\ UNCHANGED <<hosts, clients>>
        ELSE /\ hosts' = [hosts EXCEPT ![i] = None]
             /\ clients' = [k \in 1..Len(clients) |->
                              IF clients[k].target = i THEN Dummy
                              ELSE clients[k]]
             /\ tdIds' = [tdIds EXCEPT ![c] = @ \ {i}]
             /\ pc' = [pc EXCEPT ![c] = IF tdIds[c] = {i} THEN "td_dec"
                                        ELSE "td_del"]
    /\ UNCHANGED <<stats, acceptor, hs, hid, host_socket, client_socket,
                   it, data, tmp, exit, notified, sockets, superseded>>

\* line 228: del self.hosts[host_id]; a KeyError leaves the finally block
\* and ends the thread
TdDel(c) ==
    /\ pc[c] = "td_del"
    /\ \E i \in tdIds[c] :
        IF hosts[i] = None
        THEN /\ pc' = [pc EXCEPT ![c] = "crashed"]
             /\ tdIds' = [tdIds EXCEPT ![c] = {}]
             /\ UNCHANGED hosts
        ELSE /\ hosts' = [hosts EXCEPT ![i] = None]
             /\ tdIds' = [tdIds EXCEPT ![c] = @ \ {i}]
             /\ pc' = [pc EXCEPT ![c] = IF tdIds[c] = {i} THEN "td_dec"
                                        ELSE "td_del"]
    /\ UNCHANGED <<clients, stats, acceptor, hs, hid, host_socket, client_socket,
                   it, data, tmp, exit, notified, sockets, superseded>>

\* TdClients without the removal of the session entry
TdClientsKeepsEntry(c) ==
    /\ pc[c] = "td_clients"
    /\ clients' = clients
    /\ pc' = [pc EXCEPT ![c] = "td_dec"]
    /\ UNCHANGED <<hosts, stats, acceptor, locals, sockets, superseded>>

\* lines 233-235: if client in self.clients: del self.clients[client]
TdClients(c) ==
    /\ pc[c] = "td_clients"
    /\ clients' = IF HasKey(clients, c) THEN DictDel(clients, c) ELSE clients
    /\ pc' = [pc EXCEPT ![c] = "td_dec"]
    /\ UNCHANGED <<hosts, stats, acceptor, locals, sockets, superseded>>

\* line 243: the read of  self.stats['active_connections'] -= 1
TdDecRead(c) ==
    /\ pc[c] = "td_dec"
    /\ tmp' = [tmp EXCEPT ![c] = stats.active_connections]
    /\ pc' = [pc EXCEPT ![c] = "td_dec_w"]
    /\ UNCHANGED <<shared, acceptor, hs, hid, host_socket, client_socket, it,
                   data, tdIds, exit, notified, sockets, superseded>>

\* line 243: the write
TdDecWrite(c) ==
    /\ pc[c] = "td_dec_w"
    /\ stats' = [stats EXCEPT !.active_connections = tmp[c] - 1]
    /\ tmp' = [tmp EXCEPT ![c] = 0]
    /\ pc' = [pc EXCEPT ![c] = "td_close"]
    /\ UNCHANGED <<hosts, clients, acceptor, hs, hid, host_socket, client_socket,
                   it, data, tdIds, exit, notified, sockets, superseded>>

\* line 247: client.close()
TdClose(c) ==
    /\ pc[c] = "td_close"
    /\ sockClosed' = [sockClosed EXCEPT ![c] = TRUE]
    /\ pc' = [pc EXCEPT ![c] = "closed"]
    /\ UNCHANGED <<shared, acceptor, locals, wrote, out, peerClosed,
                   superseded>>

\* ------------------------------------------------------------------ Next
Next ==
    \/ Accept(MaxConns)
    \/ AcceptSpawn
    \/ \E c \in Conns : PeerClose(c)
    \/ \E c \in Conns : Handshake(c)
    \/ \E c \in Conns : Register(c)
    \/ \E c \in Conns : ScanStep(c)
    \/ \E c \in Conns : HostRecv(c)
    \/ \E c \in Conns : HostCount(c)
    \/ \E c \in Conns : HostSend(c)
    \/ \E c \in Conns : ClientNoTarget(c)
    \/ \E c \in Conns : ClientLookup(c)
    \/ \E c \in Conns : ClientGet(c)
    \/ \E c \in Conns : ClientInsert(c)
    \/ \E c \in Conns : ClientNotify(c)
    \/ \E c \in Conns : ClientReply(c)
    \/ \E c \in Conns : ClientRecv(c)
    \/ \E c \in Conns : ClientCount(c)
    \/ \E c \in Conns : ClientSend(c)
    \/ \E c \in Conns : ClientMiss(c)
    \/ \E c \in Conns : TdHosts(c)
    \/ \E c \in Conns : TdDel(c)
    \/ \E c \in Conns : TdClients(c)
    \/ \E c \in Conns : TdDecRead(c)
    \/ \E c \in Conns : TdDecWrite(c)
    \/ \E c \in Conns : TdClose(c)

Spec == Init /\ [][Next]_vars

\* ------------------------------------------------- a pairing in place
\* The state in which connection 1 has registered X, connection 2 has
\* connected to X, each peer has written one byte and the relay has
\* forwarded it, and both workers are back in their recv.
InitPaired ==
    /\ hosts = [i \in Ids |-> IF i = "X" THEN 1 ELSE None]
    /\ clients = <<[sock |-> 2, target |-> "X"]>>
    /\ stats = [total_connections |-> 2, active_connections |-> 2,
                data_transferred |-> 2]
    /\ nconn = 2
    /\ accPc = "accept"
    /\ accTmp = 0
    /\ pc = [c \in Conns |-> IF c = 1 THEN "h_recv"
                              ELSE IF c = 2 THEN "c_recv" ELSE "idle"]
    /\ hid = [c \in Conns |-> IF c \in {1, 2} THEN "X" ELSE ""]
    /\ host_socket = [c \in Conns |-> IF c = 2 THEN 1 ELSE None]
    /\ client_socket = [c \in Conns |-> IF c = 1 THEN 2 ELSE None]
    /\ it = [c \in Conns |-> NoIter]
    /\ data = [c \in Conns |-> <<>>]
    /\ tmp = [c \in Conns |-> 0]
    /\ tdIds = [c \in Conns |-> {}]
    /\ exit = [c \in Conns |-> "running"]
    /\ hs = [c \in Conns |-> IF c \in {1, 2}
                              THEN [size |-> 32, read |-> 32, err |-> "ok"]
                              ELSE NoFrame]
    /\ notified = [c \in Conns |-> IF c = 2 THEN "ok" ELSE "unsent"]
    /\ wrote = [c \in Conns |-> IF c \in {1, 2} THEN 1 ELSE 0]
    /\ out = [c \in Conns |->
                 IF c = 1 THEN <<ClientConnected, Byte(2, 1)>>
                 ELSE IF c = 2 THEN <<Connected, Byte(1, 1)>>
                 ELSE <<>>]
    /\ peerClosed = [c \in Conns |-> FALSE]
    /\ sockClosed = [c \in Conns |-> FALSE]
    /\ superseded = [c \in Conns |-> FALSE]

\* From there the accept loop takes one connection more.
NextPaired ==
    \/ Accept(MaxConns + 1)
    \/ Next

SpecPaired == InitPaired /\ [][NextPaired]_vars

\* ------------------------------------------------------------- vocabulary
HostLoop == {"scan", "scan_next", "h_recv", "h_count", "h_send"}
ClientLoop == {"c_recv", "c_count", "c_send"}
Closing == {"td_hosts", "td_del", "td_clients", "td_dec", "td_dec_w",
            "td_close"}

\* positions of the bytes / of message m in the output stream of c
BytePos(c) == {i \in 1..Len(out[c]) : out[c][i].t = "byte"}
CtlPos(c, m) == {i \in 1..Len(out[c]) : out[c][i] = m}
\* the items appended to the output stream of c by the current step
Appended(c) == {i \in 1..Len(out'[c]) : i > Len(out[c])}

\* c is a client whose connect found a host: lines 162-163 ran
Matched(c) == host_socket[c] # None
\* c is a client in its forwarding loop, paired with host h
ActiveClientOf(c, h) == pc[c] \in ClientLoop /\ host_socket[c] = h
\* the live sessions that target id i
SessionsFor(i) == {k \in Live(clients) : clients[k].target = i}

\* ------------------------------------------------------------------ C1
\* C1: after register(X) and connect(target_id=X), the host is sent
\* client_connected and the client is sent connected before any forwarded
\* byte is written to either socket: in the output stream of a matched
\* client every byte comes after `connected`, and in the output stream of
\* its host every byte comes after a `client_connected`.
C1_HandshakeBeforeBytes ==
    \A c \in Conns : Matched(c) =>
        /\ \A i \in BytePos(c) : \E j \in CtlPos(c, Connected) : j < i
        /\ \A i \in BytePos(host_socket[c]) :
              \E j \in CtlPos(host_socket[c], ClientConnected) : j < i

\* ------------------------------------------------------------------ C2
\* C2: byte fidelity.  What a side x of an active pairing reads is what the
\* other side o wrote and nothing else: whenever bytes are written to the
\* socket of x while x is in an active pairing with o, the bytes were read
\* from o, and they continue the bytes of o already written to x, in order.
C2_ByteFidelity ==
    [][\A x \in Conns : \A i \in Appended(x) :
          out'[x][i].t = "byte" =>
             \A o \in Conns :
                (ActiveClientOf(o, x) \/ ActiveClientOf(x, o)) =>
                   /\ out'[x][i].src = o
                   /\ out'[x][i].n =
                        1 + Cardinality({j \in BytePos(x) : j < i})]_vars

\* ------------------------------------------------------------------ C3
\* C3: re-registration.  Once another connection has registered the id of
\* host h, h is never matched again: the reverse lookup of h's worker never
\* hands it a client that was paired with the later registration.
C3_SupersededNeverMatched ==
    \A h \in Conns : \A c \in Conns :
        (superseded[h] /\ client_socket[h] = c) => host_socket[c] = h

\* ------------------------------------------------------------------ C4
\* C4: when the send of client_connected to the host fails, the requester
\* is never sent `connected` and its worker does not enter the forwarding
\* loop.
C4_HostNotifyFailure ==
    \A c \in Conns : notified[c] = "failed" =>
        /\ CtlPos(c, Connected) = {}
        /\ pc[c] \notin ClientLoop

\* ------------------------------------------------------------------ C5
\* the step of the current transition is a step of worker c
StepOf(c) == pc'[c] # pc[c]

\* C5: a connect whose target id is not a key of the host map (line 161)
\* sends the requester one message, the error naming that id, and nothing
\* else (a requester that has hung up may get nothing); no byte of it is
\* read or forwarded; its worker goes to Closing; and no step of that worker
\* changes the host map or the session map, which never holds it.
C5_RegistryMissInv ==
    \A c \in Conns :
        /\ pc[c] = "c_miss" => out[c] = <<>> /\ exit[c] = "running"
        /\ exit[c] = "miss" =>
              /\ out[c] = <<ErrNotFound(hid[c])>>
                    \/ (peerClosed[c] /\ out[c] = <<>>)
              /\ pc[c] \in {"td_dec", "td_dec_w", "td_close", "closed"}
        /\ (pc[c] = "c_miss" \/ exit[c] = "miss") =>
              /\ wrote[c] = 0
              /\ \A x \in Conns : \A i \in BytePos(x) : out[x][i].src # c
              /\ ~HasKey(clients, c)
              /\ \A i \in Ids : hosts[i] # c
              /\ host_socket[c] = None
C5_RegistryMiss ==
    /\ []C5_RegistryMissInv
    /\ [][\A c \in Conns :
            ((pc[c] = "c_miss" \/ exit[c] = "miss") /\ StepOf(c)) =>
                /\ hosts' = hosts
                /\ clients' = clients
                /\ stats'.data_transferred = stats.data_transferred]_vars

\* a registry miss was answered and its connection closed while a host was
\* registered and a session existed
C5_Witness ==
    \E c \in Conns :
        /\ exit[c] = "miss" /\ pc[c] = "closed"
        /\ out[c] = <<ErrNotFound("X")>>
        /\ \E i \in Ids : hosts[i] # None
        /\ Live(clients) # {}

\* ------------------------------------------------------------------ C6
\* C6: the teardown of every worker runs to completion: it is never cut
\* short, and once the worker is Closed its socket is closed and the
\* connection is neither a value of the host map nor a key of the session
\* map.
C6_TeardownExactlyOnce ==
    \A c \in Conns :
        /\ pc[c] # "crashed"
        /\ pc[c] = "closed" =>
              /\ sockClosed[c]
              /\ ~HasKey(clients, c)
              /\ \A i \in Ids : hosts[i] # c

\* ------------------------------------------------------------------ C7
\* C7: once the client of a pairing has closed and its worker has run to
\* Closed, the host worker of the pairing has left its loop too, or still
\* has the read of its socket ahead of it: it is in Closing or Closed, or at
\* its recv or forwarding the chunk read, or polling with a session that
\* targets its id.  It is never left polling with nothing to find.
C7_CloseEndsBothLoops ==
    \A c \in Conns :
        (/\ pc[c] = "closed" /\ exit[c] = "eof"
         /\ CtlPos(c, Connected) # {}
         /\ CtlPos(host_socket[c], ClientConnected) # {}) =>
            LET h == host_socket[c] IN
            \/ pc[h] \in Closing \cup {"closed", "h_recv", "h_count", "h_send"}
            \/ SessionsFor(hid[h]) # {}

\* ------------------------------------------------------------------ C8
\* C8: error locality.  A worker leaves its forwarding loop only on the end
\* of its own socket's stream or on the failure of its own forward write;
\* no step of another worker makes it leave.
C8_ErrorLocality ==
    [][\A b \in Conns :
          (pc[b] \in HostLoop \cup ClientLoop /\ pc'[b] \notin HostLoop \cup ClientLoop)
             => exit'[b] \in {"eof", "wfail"}]_vars

\* ------------------------------------------------------------------ C9
\* worker c is in the middle of a registry operation: its iterator over the
\* session map is open (121-125), it is between the membership test, the
\* lookup and the session insert of connect (161-163), or between the
\* snapshot and the delete of teardown (226-228)
InRegistryOp(c) == pc[c] \in {"scan_next", "c_get", "c_insert", "td_del"}

\* C9: registry mutual exclusion.  While a worker is in the middle of a
\* registry operation no other worker changes the host map or the session
\* map.
C9_RegistryMutex ==
    [][(hosts' # hosts \/ clients' # clients) =>
          \A c \in Conns : InRegistryOp(c) => StepOf(c)]_vars

\* ----------------------------------------------------------------- C10
\* the accepted connections whose teardown has not yet given back its count
Counted == {c \in Conns : pc[c] \notin {"idle", "td_close", "closed"}}
UpdateInProgress == accPc = "inc" \/ \E c \in Conns : pc[c] = "td_dec_w"

\* C10: activeConnections is never negative and, whenever no update of it
\* is in progress, equals the number of accepted connections whose teardown
\* has not completed.
C10_ActiveAccounting ==
    /\ stats.active_connections >= 0
    /\ ~UpdateInProgress => stats.active_connections = Cardinality(Counted)

\* ----------------------------------------------------------------- C11
\* the number of bytes written to the sockets 1..n by the forwarding loops
RECURSIVE ForwardedTo(_)
ForwardedTo(n) ==
    IF n = 0 THEN 0 ELSE Cardinality(BytePos(n)) + ForwardedTo(n - 1)
Forwarded == ForwardedTo(MaxConns + 1)
\* a worker is between the recv of a chunk and the end of its forward write
Forwarding == \E c \in Conns : pc[c] \in {"h_count", "h_send", "c_count", "c_send"}

\* C11: bytesTransferred counts the forwarded chunks and nothing else:
\* whenever no worker holds a chunk, data_transferred is the number of bytes
\* written to the peers.  A chunk whose forward write failed is not counted
\* and no increment is lost.
C11_BytesCountForwarded ==
    ~Forwarding => stats.data_transferred = Forwarded

\* ----------------------------------------------------------------- C12
\* the handshake of c ended without a register with an id or a connect
RejectedAtHandshake(c) ==
    /\ pc[c] = "handshake" /\ StepOf(c)
    /\ pc'[c] \notin {"register", "c_lookup", "c_notarget"}

\* C12: silent rejection at handshake.  When the handshake read times out
\* or is cut short, the payload does not decode, the action is missing or
\* unknown, or a register has no id, the worker goes directly to Closing;
\* nothing is ever written to that connection, and it is never a value of
\* the host map nor a key of the session map.
C12_SilentInv ==
    \A c \in Conns :
        /\ (pc[c] \notin {"idle", "accepted", "handshake"}
               /\ hs[c].err # "ok") => exit[c] = "rejected"
        /\ exit[c] = "rejected" =>
              /\ out[c] = <<>>
              /\ pc[c] \in {"td_dec", "td_dec_w", "td_close", "closed"}
              /\ ~HasKey(clients, c)
              /\ \A i \in Ids : hosts[i] # c
              /\ hid[c] = "" /\ host_socket[c] = None
C12_SilentRejection ==
    /\ []C12_SilentInv
    /\ [][\A c \in Conns : RejectedAtHandshake(c) =>
              /\ exit'[c] = "rejected"
              /\ pc'[c] \in Closing
              /\ out' = out /\ hosts' = hosts /\ clients' = clients]_vars

\* a connection whose handshake did not decode was dropped and closed while
\* a host was registered and a session existed
C12_Witness ==
    \E c \in Conns :
        /\ exit[c] = "rejected" /\ pc[c] = "closed"
        /\ hs[c].err = "decode"
        /\ hosts["X"] # None /\ Live(clients) # {}

\* ----------------------------------------------------------------- C13
\* C13: oversized header.  When the length field of the handshake frame
\* declares more than 10 MiB, receive_json reads no byte after the length
\* field, the worker goes to Closing and nothing is written to the
\* connection; and receive_json refuses a frame for its size only when the
\* declared length is more than 10 MiB.
C13_OversizedHeader ==
    \A c \in Conns :
        /\ hs[c].size > MaxMsgSize =>
              /\ hs[c].read = 0
              /\ hs[c].err = "too_large"
              /\ exit[c] = "rejected"
              /\ out[c] = <<>>
              /\ pc[c] \in {"td_dec", "td_dec_w", "td_close", "closed"}
        /\ hs[c].err = "too_large" => hs[c].size > MaxMsgSize
        /\ hs[c].err \in {"ok", "decode"} => hs[c].read = hs[c].size

\* a connection that declared 10 MiB + 1 was closed with nothing read
C13_Witness ==
    \E c \in Conns :
        /\ hs[c].size = MaxMsgSize + 1
        /\ hs[c].read = 0
        /\ pc[c] = "closed" /\ sockClosed[c]

\* a register framed in exactly 10 MiB was read whole and registered
C13_LargestAccepted ==
    \E c \in Conns :
        /\ hs[c].size = MaxMsgSize /\ hs[c].read = MaxMsgSize
        /\ hosts["Y"] = c

\* ----------------------------------------------------------------- C14
\* C14: pure byte pipe.  Once a byte has been forwarded to a host socket
\* and the host has a client in its forwarding loop, everything written to
\* the host socket is a forwarded byte: no control message is written into
\* that stream, whatever other clients connect to the same id.
C14_PureBytePipe ==
    [][\A h \in Conns :
          (BytePos(h) # {} /\ \E c \in Conns : ActiveClientOf(c, h)) =>
             \A i \in Appended(h) : out'[h][i].t = "byte"]_vars

\* ----------------------------------------------------------------- C15
\* what a connect without target id leaves behind, given the reply m
EmptyTargetInv(m) ==
    \A c \in Conns :
        /\ pc[c] = "c_notarget" => out[c] = <<>> /\ exit[c] = "running"
        /\ exit[c] = "notarget" =>
              /\ out[c] = <<m>> \/ (peerClosed[c] /\ out[c] = <<>>)
              /\ pc[c] \in {"td_dec", "td_dec_w", "td_close", "closed"}
        /\ (pc[c] = "c_notarget" \/ exit[c] = "notarget") =>
              /\ ~HasKey(clients, c)
              /\ host_socket[c] = None /\ notified[c] = "unsent"
              /\ wrote[c] = 0

\* C15 as stated: a connect with an empty or absent target id is answered
\* with exactly one message, {action: error, error: "No target ID"}; no
\* session is created, no host is contacted and the connection closes.
C15_EmptyTargetAsStated == EmptyTargetInv(Ctl("error", "No target ID", ""))

\* C15, amended: the one message is {action: error, error: "No target ID
\* provided"} (a requester that has hung up may get nothing); no session is
\* created; no step of that worker writes to another socket or changes the
\* host map or the session map; and the worker goes to Closing.
C15_EmptyTarget ==
    /\ []EmptyTargetInv(ErrNoTarget)
    /\ [][\A c \in Conns :
            ((pc[c] = "c_notarget" \/ exit[c] = "notarget") /\ StepOf(c)) =>
                /\ hosts' = hosts
                /\ clients' = clients
                /\ \A x \in Conns \ {c} : out'[x] = out[x]]_vars

\* a connect without target id was answered and closed while a host was
\* registered and paired
C15_Witness ==
    \E c \in Conns :
        /\ exit[c] = "notarget" /\ pc[c] = "closed"
        /\ out[c] = <<ErrNoTarget>>
        /\ hosts["X"] # None /\ Live(clients) # {}

\* ----------------------------------------------------------------- C16
\* C16: teardown removes only the connection's own entry.  The host map
\* entry of a connection is removed by a step of that connection's own
\* worker and by no other, so hosts[X] = h2 lasts from h2's registration to
\* h2's own teardown; and no teardown fails part-way.
C16_TeardownOwnEntry ==
    [][/\ \A i \in Ids :
            (hosts[i] # None /\ hosts'[i] = None) => StepOf(hosts[i])
       /\ \A c \in Conns : pc'[c] # "crashed"]_vars

\* ----------------------------------------------------------------- C17
\* C17: monotonic counters.  No step of the system decreases
\* total_connections or data_transferred.
C17_MonotonicCounters ==
    [][/\ stats'.total_connections >= stats.total_connections
       /\ stats'.data_transferred >= stats.data_transferred]_vars

\* ----------------------------------------------------------------- C18
\* a step of the worker of a host connection: its registration, its loop or
\* the removal of its host map entry
HostStep(h) ==
    StepOf(h) /\ pc[h] \in {"register", "td_hosts", "td_del"} \cup HostLoop

\* C18: host departure leaves sessions untouched.  No step of a host
\* worker (registration, re-registration, teardown) changes the session
\* map; a client keeps the host_socket it captured at match time and
\* forwards to it and to nothing else; and its session entry is removed
\* only by its own teardown, after EOF on its socket or a failed forward
\* write.
C18_HostDepartureKeepsSessions ==
    [][/\ \A h \in Conns : HostStep(h) => clients' = clients
       /\ \A c \in Conns :
            /\ host_socket[c] # None => host_socket'[c] = host_socket[c]
            /\ (HasKey(clients, c) /\ ~HasKey(clients', c)) =>
                  /\ StepOf(c) /\ pc[c] = "td_clients"
                  /\ exit[c] \in {"eof", "wfail"}
            /\ (StepOf(c) /\ pc[c] \in ClientLoop) =>
                  /\ hosts' = hosts
                  /\ \A x \in Conns \ {host_socket[c]} : out'[x] = out[x]]_vars

\* the host a client was paired with has been torn down and closed and
\* another connection has registered its id, while the client is still in
\* its forwarding loop with its session entry in place
C18_Witness ==
    \E c \in Conns :
        /\ pc[c] \in ClientLoop /\ HasKey(clients, c)
        /\ pc[host_socket[c]] = "closed"
        /\ hosts[hid[c]] \notin {None, host_socket[c]}

\* ----------------------------------------------------------------- C19
\* host worker h is polling the reverse lookup
Polling(h) == pc[h] \in {"scan", "scan_next"}

\* C19: pairing discovery.  A host worker starts a read of its socket only
\* from a reverse lookup that found a session targeting its id; and a
\* polling host worker for whose id the session map holds a session stays
\* in its loop until it finds one: every step it takes leaves it polling or
\* takes it to the read of its socket.
C19_PairingDiscovery ==
    [][\A h \in Conns :
         /\ (pc'[h] = "h_recv" /\ StepOf(h)) =>
               /\ Polling(h)
               /\ \E k \in SessionsFor(hid[h]) :
                     clients[k].sock = client_socket'[h]
         /\ (Polling(h) /\ StepOf(h) /\ SessionsFor(hid[h]) # {}) =>
               (Polling(h)' \/ pc'[h] = "h_recv")]_vars

\* ----------------------------------------------------------------- C20
\* the lifecycle state of a worker at position p.  A worker whose teardown
\* was cut short ("crashed") has begun Closing and never gets further.
Life(p) ==
    IF p = "idle" THEN "Unborn"
    ELSE IF p = "accepted" THEN "Connecting"
    ELSE IF p \in HostLoop THEN "HostActive"
    ELSE IF p \in ClientLoop THEN "ClientActive"
    ELSE IF p \in Closing \cup {"crashed"} THEN "Closing"
    ELSE IF p = "closed" THEN "Closed"
    ELSE "Handshaking"
LifeEdges ==
    {<<"Unborn", "Connecting">>, <<"Connecting", "Handshaking">>,
     <<"Handshaking", "HostActive">>, <<"Handshaking", "ClientActive">>,
     <<"Handshaking", "Closing">>, <<"HostActive", "Closing">>,
     <<"ClientActive", "Closing">>, <<"Closing", "Closed">>}
\* c is a value of the host map / a key of the session map
InHosts(c) == \E i \in Ids : hosts[i] = c
\* the positions from the registration or the session insert to the step
\* of the teardown that removes the entry
EntryWindow ==
    {"scan", "scan_next", "h_recv", "h_count", "h_send", "td_hosts", "td_del",
     "c_notify", "c_reply", "c_recv", "c_count", "c_send", "td_clients"}

\* C20: lifecycle order.  A worker changes its lifecycle state only along
\* Connecting -> Handshaking -> (HostActive or ClientActive) -> Closing ->
\* Closed, possibly skipping the active state; no connection is both a
\* value of the host map and a key of the session map; a connection has a
\* registry entry only between its successful handshake and its Closing;
\* and Closed is terminal: a Closed worker takes no step, and every change
\* of the registry, of data_transferred and every decrement of
\* active_connections is the step of a worker that is not Closed.
C20_LifecycleInv ==
    \A c \in Conns :
        /\ ~(InHosts(c) /\ HasKey(clients, c))
        /\ (InHosts(c) \/ HasKey(clients, c)) => pc[c] \in EntryWindow
        /\ InHosts(c) => hid[c] # "" /\ hs[c].err = "ok"
        /\ HasKey(clients, c) => host_socket[c] # None /\ hs[c].err = "ok"
C20_LifecycleOrder ==
    /\ []C20_LifecycleInv
    /\ [][\A c \in Conns :
            /\ Life(pc'[c]) = Life(pc[c])
                  \/ <<Life(pc[c]), Life(pc'[c])>> \in LifeEdges
            /\ pc[c] = "closed" => pc'[c] = "closed"]_vars
    /\ [][(\/ hosts' # hosts \/ clients' # clients
           \/ stats'.data_transferred # stats.data_transferred
           \/ stats'.active_connections < stats.active_connections) =>
             \E x \in Conns : StepOf(x) /\ pc[x] # "closed"]_vars

\* a host and the client paired with it have both been active, forwarded a
\* byte, run their teardown and are Closed
C20_Witness ==
    \E c \in Conns : \E h \in Conns :
        /\ host_socket[c] = h
        /\ pc[c] = "closed" /\ pc[h] = "closed"
        /\ BytePos(c) # {} /\ BytePos(h) # {}

====
